---------------------------- MODULE Spec2Model ----------------------------
(***************************************************************************)
(* The resolver loop of src/worker/caasunitprovisioner/manifold.go         *)
(* (package resolver, lines 91-259): Loop, its per-operation forwarding    *)
(* goroutine and updateCharmDir, together with the collaborators the Loop  *)
(* drives through their interfaces (Watcher, Resolver, Executor, the       *)
(* fortress Guard, the abort channel and the OnIdle callback).             *)
(*                                                                         *)
(* The Loop is one sequential process whose position is pc; every          *)
(* forwarding goroutine is a record of fwd; the collaborators are          *)
(* environment actions.                                                    *)
(***************************************************************************)
EXTENDS Naturals, Sequences, FiniteSets

(* ------------------------------ bounds -------------------------------- *)

\* Operations the Resolver may yield in one behaviour (one forwarder each).
MaxOps == 2

\* Remote state changes the Watcher raises in one behaviour.
MaxRemote == 2

\* Cap of the idle-callback streak counter.
MaxIdle == 2

(* --------------------------- program values --------------------------- *)

\* operation.Kind values of Local State (spec section 3).
Kinds == {"None", "Install", "Upgrade", "RunHook", "RunAction", "Continue"}

\* Hook kinds; "nil" is the absent hook (opState.Hook == nil).
HookKinds == {"nil", "upgrade-charm", "config-changed", "relation-changed"}

\* Every operation.State the Executor can report, as read by updateCharmDir.
LocalStates ==
    [Kind : Kinds, Hook : HookKinds, Started : BOOLEAN, Stopped : BOOLEAN]

\* Local States persisted at start-up that the Loop is run from: a unit at
\* rest (Continue), or a restart in the middle of an operation.
StartupStates ==
    { s \in LocalStates :
        /\ \/ s.Kind \in {"Continue", "Upgrade"} /\ s.Hook = "nil"
           \/ s.Kind = "RunHook" /\ s.Hook = "config-changed"
        /\ s.Stopped => s.Started }

\* The Operations a Resolver hands to the Loop: kind and hook of the effect
\* the Operation has on Local State.
Operations ==
    { [kind |-> "Upgrade", hook |-> "nil"],
      [kind |-> "RunHook", hook |-> "upgrade-charm"],
      [kind |-> "RunHook", hook |-> "relation-changed"] }

NoOperation == [kind |-> "none", hook |-> "nil"]

\* Errors a Resolver returns instead of an Operation.
ResolverErrors == {"ErrNoOperation", "ErrWaiting", "ErrDoNotProceed", "ErrOther"}

VARIABLES
    pc,        \* position of the Loop
    retErr,    \* the error Loop returned ("none" while it runs)
    opState,   \* the Executor's Local State (Executor.State())
    rfLocal,   \* rf.LocalState.State
    rfRemote,  \* rf.RemoteState: version of the snapshot the Loop holds
    op,        \* the Operation the last NextOp returned
    err,       \* the error the last NextOp returned ("nil": none)
    remote,    \* the Watcher's current snapshot version
    changed,   \* a value is pending on Watcher.RemoteStateChanged()
    fire,      \* a value is pending on the fire channel (capacity 1)
    abort,     \* cfg.Abort is signalled
    guard,     \* state of the Charm Directory Guard
    guardCall, \* the guard call updateCharmDir has in progress
    inflight,  \* number of Executor.Run calls in progress
    prepared,  \* the running Operation has written its Local State effect
    fwd,       \* the forwarding goroutines, one per Operation run
    onIdleCfg, \* cfg.OnIdle != nil
    idleIter,  \* OnIdle invocations in the current outer iteration
    idleStreak,\* OnIdle invocations since the Loop last was not idle
    notifyMark,\* version at the last change raised while an Operation ran,
               \* until the next NextOp call (0: none)
    consumed,  \* a forwarder has consumed a change notification since the
               \* Loop's last Watcher.Snapshot() call
    manifold,  \* a call of ManifoldConfig.start: its position, its
               \* arguments, the calls it has made and its result
    brokerOpen \* a call of caas.Open: its position, its arguments, the
               \* calls it has made and its result

vars == << pc, retErr, opState, rfLocal, rfRemote, op, err, remote, changed,
           fire, abort, guard, guardCall, inflight, prepared, fwd, onIdleCfg,
           idleIter, idleStreak, notifyMark, consumed, manifold,
           brokerOpen >>

\* Variables of the Loop's own decisions and bookkeeping.
loopVars == << rfLocal, rfRemote, op, err, idleIter, idleStreak >>
\* Variables of the Watcher and of the channels.
chanVars == << remote, changed, fire, notifyMark, consumed >>
\* Variables of the Executor.
execVars == << opState, inflight, prepared >>
\* Variables of the manifold's start function and of caas.Open, which the
\* Loop never touches.
glueVars == << manifold, brokerOpen >>
\* Every variable of the Loop and of its collaborators.
resolverVars == << pc, retErr, opState, rfLocal, rfRemote, op, err, remote,
                   changed, fire, abort, guard, guardCall, inflight,
                   prepared, fwd, onIdleCfg, idleIter, idleStreak,
                   notifyMark, consumed >>

\* No call of start, or of caas.Open, is in progress.
NoCall == [pc |-> "none"]

(* --------------------------- updateCharmDir --------------------------- *)

\* C1 mutant: the upgrade-charm hook is not counted as a change.
ChangingInstallUpgradeOnly(s) ==
    IF s.Kind = "Install" \/ s.Kind = "Upgrade" THEN TRUE ELSE FALSE

\* C26 mutant: every hook counts as a change of charm content.
ChangingAnyHook(s) ==
    IF s.Kind = "Install" \/ s.Kind = "Upgrade"
    THEN TRUE
    ELSE IF s.Kind = "RunHook" /\ s.Hook # "nil"
         THEN TRUE
         ELSE FALSE

\* "Determine if the charm content is changing."
Changing(s) ==
    IF s.Kind = "Install" \/ s.Kind = "Upgrade"
    THEN TRUE
    ELSE IF s.Kind = "RunHook" /\ s.Hook # "nil" /\ s.Hook = "upgrade-charm"
         THEN TRUE
         ELSE FALSE

\* C31 mutant: a stopped unit still counts as available.
AvailableIgnoresStopped(s) == s.Started /\ ~Changing(s)

\* available := opState.Started && !opState.Stopped && !changing
Available(s) == s.Started /\ ~s.Stopped /\ ~Changing(s)

\* The guard method updateCharmDir calls for operation state s.
GuardMethod(s) == IF Available(s) THEN "Unlock" ELSE "Lockdown"

\* The operation state each call site hands to updateCharmDir: line 159
\* passes cfg.Executor.State(), line 207 passes rf.LocalState.State.
CharmDirArg == IF pc = "init" THEN opState ELSE rfLocal

\* updateCharmDir is entered and issues its guard call.
UpdateCharmDirCall ==
    /\ pc \in {"init", "guard"}
    /\ guardCall = "none"
    /\ guardCall' = GuardMethod(CharmDirArg)
    /\ UNCHANGED << pc, retErr, guard, abort, fwd, onIdleCfg, glueVars >>
    /\ UNCHANGED << loopVars, chanVars, execVars >>

\* Where the Loop goes when updateCharmDir returns nil.
AfterCharmDir == IF pc = "init" THEN "snapshot" ELSE "decide"

\* guard.Unlock() returns nil: the guard is unlocked.
GuardUnlockOk ==
    /\ pc \in {"init", "guard"}
    /\ guardCall = "Unlock"
    /\ guard' = "unlocked"
    /\ guardCall' = "none"
    /\ pc' = AfterCharmDir
    /\ UNCHANGED << retErr, abort, fwd, onIdleCfg, glueVars >>
    /\ UNCHANGED << loopVars, chanVars, execVars >>

\* guard.Lockdown(abort) returns nil: the guard is locked.
GuardLockdownOk ==
    /\ pc \in {"init", "guard"}
    /\ guardCall = "Lockdown"
    /\ guard' = "locked"
    /\ guardCall' = "none"
    /\ pc' = AfterCharmDir
    /\ UNCHANGED << retErr, abort, fwd, onIdleCfg, glueVars >>
    /\ UNCHANGED << loopVars, chanVars, execVars >>

\* C23 mutant: Lockdown is called without the Loop's abort channel, so only
\* a shutdown of the fortress makes it fail.
GuardFailWithoutAbort ==
    /\ pc \in {"init", "guard"}
    /\ guardCall # "none"
    /\ retErr' = "ErrShutdown"
    /\ guardCall' = "none"
    /\ pc' = "done"
    /\ UNCHANGED << guard, abort, fwd, onIdleCfg, glueVars >>
    /\ UNCHANGED << loopVars, chanVars, execVars >>

\* C15 mutant: the error of the guard call is recorded and the Loop goes on.
GuardFailContinues ==
    /\ pc \in {"init", "guard"}
    /\ guardCall # "none"
    /\ \E e \in {"ErrShutdown", "ErrAborted"} :
          /\ e = "ErrAborted" => (guardCall = "Lockdown" /\ abort)
          /\ retErr' = e
    /\ guardCall' = "none"
    /\ pc' = AfterCharmDir
    /\ UNCHANGED << guard, abort, fwd, onIdleCfg, glueVars >>
    /\ UNCHANGED << loopVars, chanVars, execVars >>

\* The guard call fails (the fortress is shut down, or a Lockdown is
\* cancelled by the abort signal): the Loop returns the traced error.
GuardFail ==
    /\ pc \in {"init", "guard"}
    /\ guardCall # "none"
    /\ \E e \in {"ErrShutdown", "ErrAborted"} :
          /\ e = "ErrAborted" => (guardCall = "Lockdown" /\ abort)
          /\ retErr' = e
    /\ guardCall' = "none"
    /\ pc' = "done"
    /\ UNCHANGED << guard, abort, fwd, onIdleCfg, glueVars >>
    /\ UNCHANGED << loopVars, chanVars, execVars >>

(* ------------------------------ the Loop ------------------------------ *)

\* C27 mutant: the outer iteration re-reads Local State only and keeps the
\* snapshot it had.
LoopSnapshotLocalOnly ==
    /\ pc = "snapshot"
    /\ rfLocal' = opState
    /\ pc' = "decide"
    /\ UNCHANGED << retErr, rfRemote, op, err, abort, guard, guardCall, fwd,
                    onIdleCfg, glueVars, idleIter, idleStreak >>
    /\ consumed' = FALSE
    /\ UNCHANGED << remote, changed, fire, notifyMark >>
    /\ UNCHANGED execVars

\* C25 mutant: the snapshot step writes the hook of the Executor's Local
\* State back as absent.
LoopSnapshotClearsHook ==
    /\ pc = "snapshot"
    /\ rfRemote' = remote
    /\ rfLocal' = opState
    /\ opState' = [opState EXCEPT !.Hook = "nil"]
    /\ pc' = "decide"
    /\ UNCHANGED << retErr, op, err, abort, guard, guardCall, fwd, onIdleCfg, glueVars,
                    idleIter, idleStreak, inflight, prepared >>
    /\ consumed' = FALSE
    /\ UNCHANGED << remote, changed, fire, notifyMark >>

\* Lines 166-167: rf.RemoteState = Watcher.Snapshot();
\* rf.LocalState.State = Executor.State().
LoopSnapshot ==
    /\ pc = "snapshot"
    /\ rfRemote' = remote
    /\ rfLocal' = opState
    /\ pc' = "decide"
    /\ UNCHANGED << retErr, op, err, abort, guard, guardCall, fwd, onIdleCfg, glueVars,
                    idleIter, idleStreak >>
    /\ consumed' = FALSE
    /\ UNCHANGED << remote, changed, fire, notifyMark >>
    /\ UNCHANGED execVars

\* Number of Operations started so far.
OpsRun == Len(fwd)

\* C30 mutant: the inner loop is left although NextOp returned an Operation.
LoopNextOpLeavesOnNil ==
    /\ pc = "decide"
    /\ notifyMark' = 0
    /\ \/ \E o \in Operations :
             /\ OpsRun < MaxOps
             /\ op' = o
             /\ err' = "nil"
             /\ pc' = "switch"
       \/ \E e \in ResolverErrors :
             /\ op' = NoOperation
             /\ err' = e
             /\ pc' = "switch"
    /\ UNCHANGED << retErr, rfLocal, rfRemote, abort, guard, guardCall, fwd,
                    onIdleCfg, glueVars, idleIter, idleStreak, remote, changed, fire,
                    consumed >>
    /\ UNCHANGED execVars

\* Lines 169 and 212: Resolver.NextOp(*rf.LocalState, rf.RemoteState, rf)
\* returns an Operation or an error. The Resolver is any decision policy:
\* the Loop reads nothing of the decision but the Operation or the error.
\* The change mark is cleared: this call has seen the snapshot it is for.
LoopNextOp ==
    /\ pc = "decide"
    /\ notifyMark' = 0
    /\ \/ \E o \in Operations :
             /\ OpsRun < MaxOps
             /\ op' = o
             /\ err' = "nil"
             /\ pc' = "spawn"
       \/ \E e \in ResolverErrors :
             /\ op' = NoOperation
             /\ err' = e
             /\ pc' = "switch"
    /\ UNCHANGED << retErr, rfLocal, rfRemote, abort, guard, guardCall, fwd,
                    onIdleCfg, glueVars, idleIter, idleStreak, remote, changed, fire,
                    consumed >>
    /\ UNCHANGED execVars

\* A forwarding goroutine as started at line 174: rs is nil, done is open.
NewForwarder == [pc |-> "select", rs |-> FALSE, val |-> 0, done |-> FALSE]

\* C21 mutant: the abort channel is polled before an Operation is run.
LoopRunChecksAbort ==
    /\ pc = "spawn"
    /\ IF abort
       THEN /\ retErr' = "ErrLoopAborted"
            /\ pc' = "done"
            /\ UNCHANGED << fwd, inflight, prepared, idleStreak >>
       ELSE /\ fwd' = Append(fwd, NewForwarder)
            /\ inflight' = inflight + 1
            /\ prepared' = FALSE
            /\ idleStreak' = 0
            /\ pc' = "run"
            /\ UNCHANGED retErr
    /\ UNCHANGED << rfLocal, rfRemote, op, err, abort, guard, guardCall,
                    opState, onIdleCfg, glueVars, idleIter >>
    /\ UNCHANGED chanVars

\* C3 mutant: Executor.Run is started without waiting for its return.
LoopRunDetached ==
    /\ pc = "spawn"
    /\ fwd' = Append(fwd, NewForwarder)
    /\ inflight' = inflight + 1
    /\ prepared' = FALSE
    /\ idleStreak' = 0
    /\ pc' = "refresh"
    /\ UNCHANGED << retErr, rfLocal, rfRemote, op, err, abort, guard,
                    guardCall, opState, onIdleCfg, glueVars, idleIter >>
    /\ UNCHANGED chanVars

\* Lines 172-196: the channels are made, the forwarding goroutine is
\* started and Executor.Run(op, remoteStateChanged) is called.
LoopRun ==
    /\ pc = "spawn"
    /\ fwd' = Append(fwd, NewForwarder)
    /\ inflight' = inflight + 1
    /\ prepared' = FALSE
    /\ idleStreak' = 0
    /\ pc' = "run"
    /\ UNCHANGED << retErr, rfLocal, rfRemote, op, err, abort, guard,
                    guardCall, opState, onIdleCfg, glueVars, idleIter >>
    /\ UNCHANGED chanVars

\* close(done) for the forwarder of the Operation that just ran. Nothing
\* receives from its remoteStateChanged channel any more, so what it still
\* offers there is dropped from the state.
CloseDone(f) ==
    [f EXCEPT ![Len(f)].done = TRUE, ![Len(f)].rs = FALSE, ![Len(f)].val = 0]

\* C28 mutant: after a successful Run the same Operation is run again.
LoopRunReturnsOkRunsAgain ==
    /\ pc = "run"
    /\ inflight > 0
    /\ prepared
    /\ inflight' = inflight - 1
    /\ fwd' = CloseDone(fwd)
    /\ pc' = "spawn"
    /\ UNCHANGED << retErr, abort, guard, guardCall, opState, prepared,
                    onIdleCfg, glueVars >>
    /\ UNCHANGED << loopVars, chanVars >>

\* Lines 196, 200: Executor.Run returns nil and done is closed.
LoopRunReturnsOk ==
    /\ pc = "run"
    /\ inflight > 0
    /\ prepared
    /\ inflight' = inflight - 1
    /\ fwd' = CloseDone(fwd)
    /\ pc' = "refresh"
    /\ UNCHANGED << retErr, abort, guard, guardCall, opState, prepared,
                    onIdleCfg, glueVars >>
    /\ UNCHANGED << loopVars, chanVars >>

\* C11 mutant: the error of Executor.Run is recorded and the Operation is
\* run again.
LoopRunRetriesOnErr ==
    /\ pc = "run"
    /\ inflight > 0
    /\ inflight' = inflight - 1
    /\ fwd' = CloseDone(fwd)
    /\ retErr' = "ErrExecutor"
    /\ pc' = "spawn"
    /\ UNCHANGED << abort, guard, guardCall, opState, prepared, onIdleCfg, glueVars >>
    /\ UNCHANGED << loopVars, chanVars >>

\* C34 mutant: on the failure path the Loop returns without close(done).
LoopRunReturnsErrLeavesDoneOpen ==
    /\ pc = "run"
    /\ inflight > 0
    /\ inflight' = inflight - 1
    /\ retErr' = "ErrExecutor"
    /\ pc' = "done"
    /\ UNCHANGED << abort, guard, guardCall, opState, prepared, onIdleCfg, glueVars,
                    fwd >>
    /\ UNCHANGED << loopVars, chanVars >>

\* Lines 196-198: Executor.Run returns an error, done is closed and the
\* Loop returns the traced error.
LoopRunReturnsErr ==
    /\ pc = "run"
    /\ inflight > 0
    /\ inflight' = inflight - 1
    /\ fwd' = CloseDone(fwd)
    /\ retErr' = "ErrExecutor"
    /\ pc' = "done"
    /\ UNCHANGED << abort, guard, guardCall, opState, prepared, onIdleCfg, glueVars >>
    /\ UNCHANGED << loopVars, chanVars >>

\* C17 mutant: only the snapshot is refreshed after a Run.
LoopRefreshRemoteOnly ==
    /\ pc = "refresh"
    /\ rfRemote' = remote
    /\ pc' = "guard"
    /\ UNCHANGED << retErr, rfLocal, op, err, abort, guard, guardCall, fwd,
                    onIdleCfg, glueVars, idleIter, idleStreak >>
    /\ consumed' = FALSE
    /\ UNCHANGED << remote, changed, fire, notifyMark >>
    /\ UNCHANGED execVars

\* C7 mutant: only the local state is refreshed after a Run.
LoopRefreshLocalOnly ==
    /\ pc = "refresh"
    /\ rfLocal' = opState
    /\ pc' = "guard"
    /\ UNCHANGED << retErr, rfRemote, op, err, abort, guard, guardCall, fwd,
                    onIdleCfg, glueVars, idleIter, idleStreak >>
    /\ consumed' = FALSE
    /\ UNCHANGED << remote, changed, fire, notifyMark >>
    /\ UNCHANGED execVars

\* Lines 204-205: the snapshot and the local state are refreshed.
LoopRefresh ==
    /\ pc = "refresh"
    /\ rfRemote' = remote
    /\ rfLocal' = opState
    /\ pc' = "guard"
    /\ UNCHANGED << retErr, op, err, abort, guard, guardCall, fwd, onIdleCfg, glueVars,
                    idleIter, idleStreak >>
    /\ consumed' = FALSE
    /\ UNCHANGED << remote, changed, fire, notifyMark >>
    /\ UNCHANGED execVars

\* C12 mutant: an unrecognised error is handled like ErrWaiting.
SwitchCaseOtherIsWaiting(e) ==
    CASE e = "nil" -> "nil"
      [] e = "ErrNoOperation" -> "ErrNoOperation"
      [] OTHER -> "ErrWaiting"

\* C13 mutant: ErrDoNotProceed is handled like ErrNoOperation.
SwitchCaseDoNotProceedIsIdle(e) ==
    CASE e = "nil" -> "nil"
      [] e = "ErrWaiting" -> "ErrWaiting"
      [] e \in {"ErrNoOperation", "ErrDoNotProceed"} -> "ErrNoOperation"
      [] OTHER -> "default"

\* C9 mutant: ErrWaiting is handled by the ErrNoOperation case.
SwitchCaseWaitingIsIdle(e) ==
    CASE e = "nil" -> "nil"
      [] e = "ErrWaiting" -> "ErrNoOperation"
      [] e = "ErrNoOperation" -> "ErrNoOperation"
      [] OTHER -> "default"

\* Line 215: the case of `switch errors.Cause(err)` that error e selects.
SwitchCase(e) ==
    CASE e = "nil" -> "nil"
      [] e = "ErrWaiting" -> "ErrWaiting"
      [] e = "ErrNoOperation" -> "ErrNoOperation"
      [] OTHER -> "default"

\* C6 mutant: the callback is skipped when the previous outer iteration
\* already reported the Loop idle.
OnIdleOnFirstIdleOnly == onIdleCfg /\ idleStreak = 0

\* Line 221: cfg.OnIdle != nil.
OnIdleConfigured == onIdleCfg

\* C29 mutant: on ErrWaiting the Loop asks the Resolver again at once.
LoopSwitchWaitingRetries ==
    /\ pc = "switch"
    /\ CASE SwitchCase(err) = "nil" ->
              /\ pc' = "wait"
              /\ UNCHANGED << retErr, idleIter, idleStreak >>
         [] SwitchCase(err) = "ErrWaiting" ->
              /\ pc' = "decide"
              /\ idleStreak' = 0
              /\ UNCHANGED << retErr, idleIter >>
         [] SwitchCase(err) = "ErrNoOperation" ->
              IF OnIdleConfigured
              THEN /\ pc' = "onidle"
                   /\ idleIter' = idleIter + 1
                   /\ idleStreak' =
                        IF idleStreak < MaxIdle THEN idleStreak + 1
                                                ELSE idleStreak
                   /\ UNCHANGED retErr
              ELSE /\ pc' = "wait"
                   /\ UNCHANGED << retErr, idleIter, idleStreak >>
         [] OTHER ->
              /\ pc' = "done"
              /\ retErr' = err
              /\ UNCHANGED << idleIter, idleStreak >>
    /\ UNCHANGED << rfLocal, rfRemote, op, err, abort, guard, guardCall, fwd,
                    onIdleCfg, glueVars >>
    /\ UNCHANGED << chanVars, execVars >>

\* Lines 215-228: the switch on the error that ended the inner loop.
LoopSwitch ==
    /\ pc = "switch"
    /\ CASE SwitchCase(err) = "nil" ->
              /\ pc' = "wait"
              /\ UNCHANGED << retErr, idleIter, idleStreak >>
         [] SwitchCase(err) = "ErrWaiting" ->
              /\ pc' = "wait"
              /\ idleStreak' = 0
              /\ UNCHANGED << retErr, idleIter >>
         [] SwitchCase(err) = "ErrNoOperation" ->
              IF OnIdleConfigured
              THEN /\ pc' = "onidle"
                   /\ idleIter' = idleIter + 1
                   /\ idleStreak' =
                        IF idleStreak < MaxIdle THEN idleStreak + 1
                                                ELSE idleStreak
                   /\ UNCHANGED retErr
              ELSE /\ pc' = "wait"
                   /\ UNCHANGED << retErr, idleIter, idleStreak >>
         [] OTHER ->
              /\ pc' = "done"
              /\ retErr' = err
              /\ UNCHANGED << idleIter, idleStreak >>
    /\ UNCHANGED << rfLocal, rfRemote, op, err, abort, guard, guardCall, fwd,
                    onIdleCfg, glueVars >>
    /\ UNCHANGED << chanVars, execVars >>

\* C10 mutant: after OnIdle the Loop starts its next iteration at once.
OnIdleOkNoWait ==
    /\ pc = "onidle"
    /\ pc' = "snapshot"
    /\ UNCHANGED << retErr, abort, guard, guardCall, fwd, onIdleCfg, glueVars >>
    /\ UNCHANGED << loopVars, chanVars, execVars >>

\* Line 222: cfg.OnIdle() returns nil.
OnIdleOk ==
    /\ pc = "onidle"
    /\ pc' = "wait"
    /\ UNCHANGED << retErr, abort, guard, guardCall, fwd, onIdleCfg, glueVars >>
    /\ UNCHANGED << loopVars, chanVars, execVars >>

\* C14 mutant: the error of OnIdle is recorded and the Loop waits.
OnIdleFailThenWaits ==
    /\ pc = "onidle"
    /\ retErr' = "ErrIdle"
    /\ pc' = "wait"
    /\ UNCHANGED << abort, guard, guardCall, fwd, onIdleCfg, glueVars >>
    /\ UNCHANGED << loopVars, chanVars, execVars >>

\* Lines 222-224: cfg.OnIdle() returns an error, which the Loop returns.
OnIdleFail ==
    /\ pc = "onidle"
    /\ retErr' = "ErrIdle"
    /\ pc' = "done"
    /\ UNCHANGED << abort, guard, guardCall, fwd, onIdleCfg, glueVars >>
    /\ UNCHANGED << loopVars, chanVars, execVars >>

\* C22 mutant: the abort case locks the guard before it returns.
LoopWaitAbortLocksGuard ==
    /\ pc = "wait"
    /\ abort
    /\ retErr' = "ErrLoopAborted"
    /\ guard' = "locked"
    /\ pc' = "done"
    /\ UNCHANGED << abort, guardCall, fwd, onIdleCfg, glueVars >>
    /\ UNCHANGED << loopVars, chanVars, execVars >>

\* C5 mutant: the abort case does not return.
LoopWaitAbortContinues ==
    /\ pc = "wait"
    /\ abort
    /\ pc' = "snapshot"
    /\ UNCHANGED << retErr, abort, guard, guardCall, fwd, onIdleCfg, glueVars >>
    /\ UNCHANGED << loopVars, chanVars, execVars >>

\* C35 mutant: the abort case returns nil.
LoopWaitAbortReturnsNil ==
    /\ pc = "wait"
    /\ abort
    /\ retErr' = "none"
    /\ pc' = "done"
    /\ UNCHANGED << abort, guard, guardCall, fwd, onIdleCfg, glueVars >>
    /\ UNCHANGED << loopVars, chanVars, execVars >>

\* Lines 230-232: the select takes the abort case.
LoopWaitAbort ==
    /\ pc = "wait"
    /\ abort
    /\ retErr' = "ErrLoopAborted"
    /\ pc' = "done"
    /\ UNCHANGED << abort, guard, guardCall, fwd, onIdleCfg, glueVars >>
    /\ UNCHANGED << loopVars, chanVars, execVars >>

\* The Loop starts its next outer iteration.
NextIteration ==
    /\ pc' = "snapshot"
    /\ err' = "nil"
    /\ op' = NoOperation
    /\ idleIter' = 0

\* Line 233: the select receives from Watcher.RemoteStateChanged().
LoopWaitChanged ==
    /\ pc = "wait"
    /\ changed
    /\ changed' = FALSE
    /\ NextIteration
    /\ UNCHANGED << retErr, rfLocal, rfRemote, abort, guard, guardCall, fwd,
                    onIdleCfg, glueVars, idleStreak, remote, fire,
                    notifyMark, consumed >>
    /\ UNCHANGED execVars

\* C24 mutant: the wait is left without anything received.
LoopWaitFireNonBlocking ==
    /\ pc = "wait"
    /\ fire' = FALSE
    /\ NextIteration
    /\ UNCHANGED << retErr, rfLocal, rfRemote, abort, guard, guardCall, fwd,
                    onIdleCfg, glueVars, idleStreak, remote, changed,
                    notifyMark, consumed >>
    /\ UNCHANGED execVars

\* Line 234: the select receives from fire.
LoopWaitFire ==
    /\ pc = "wait"
    /\ fire
    /\ fire' = FALSE
    /\ NextIteration
    /\ UNCHANGED << retErr, rfLocal, rfRemote, abort, guard, guardCall, fwd,
                    onIdleCfg, glueVars, idleStreak, remote, changed,
                    notifyMark, consumed >>
    /\ UNCHANGED execVars

(* ---------------------- the forwarding goroutine ---------------------- *)

\* C19 mutant: a forwarder with a snapshot pending waits for the Executor
\* to receive it before it takes another change.
FwdRecvChangedAfterSend(i) ==
    /\ fwd[i].pc = "select"
    /\ ~fwd[i].rs
    /\ changed
    /\ changed' = FALSE
    /\ consumed' = TRUE
    /\ fwd' = [fwd EXCEPT ![i].pc = "fire"]
    /\ UNCHANGED << pc, retErr, abort, guard, guardCall, onIdleCfg, glueVars, remote,
                    fire, notifyMark >>
    /\ UNCHANGED << loopVars, execVars >>

\* Line 178: forwarder i receives from Watcher.RemoteStateChanged().
FwdRecvChanged(i) ==
    /\ fwd[i].pc = "select"
    /\ changed
    /\ changed' = FALSE
    /\ consumed' = TRUE
    /\ fwd' = [fwd EXCEPT ![i].pc = "fire"]
    /\ UNCHANGED << pc, retErr, abort, guard, guardCall, onIdleCfg, glueVars, remote,
                    fire, notifyMark >>
    /\ UNCHANGED << loopVars, execVars >>

\* C8 mutant: the forwarder keeps the change to itself, fire is not sent.
FwdFireNoWakeup(i) ==
    /\ fwd[i].pc = "fire"
    /\ fwd' = [fwd EXCEPT ![i].pc = "select",
                           ![i].rs = ~fwd[i].done,
                           ![i].val = IF fwd[i].done THEN 0 ELSE remote]
    /\ UNCHANGED << pc, retErr, abort, guard, guardCall, onIdleCfg, glueVars, remote,
                    changed, fire, notifyMark, consumed >>
    /\ UNCHANGED << loopVars, execVars >>

\* C20 mutant: a snapshot that is already pending is kept as it is.
FwdFireKeepsPending(i) ==
    /\ fwd[i].pc = "fire"
    /\ fire' = TRUE
    /\ fwd' = [fwd EXCEPT ![i].pc = "select",
                           ![i].rs = ~fwd[i].done,
                           ![i].val = IF fwd[i].done THEN 0
                                      ELSE IF fwd[i].rs THEN fwd[i].val
                                      ELSE remote]
    /\ UNCHANGED << pc, retErr, abort, guard, guardCall, onIdleCfg, glueVars, remote,
                    changed, notifyMark, consumed >>
    /\ UNCHANGED << loopVars, execVars >>

\* C33 mutant: the send on fire has no default and waits for an empty slot.
FwdFireBlocking(i) ==
    /\ fwd[i].pc = "fire"
    /\ ~fire
    /\ fire' = TRUE
    /\ fwd' = [fwd EXCEPT ![i].pc = "select",
                           ![i].rs = ~fwd[i].done,
                           ![i].val = IF fwd[i].done THEN 0 ELSE remote]
    /\ UNCHANGED << pc, retErr, abort, guard, guardCall, onIdleCfg, glueVars, remote,
                    changed, notifyMark, consumed >>
    /\ UNCHANGED << loopVars, execVars >>

\* Lines 182-186: the non-blocking send on fire, then rs = remoteStateChanged;
\* the select is entered again and evaluates Watcher.Snapshot().
FwdFire(i) ==
    /\ fwd[i].pc = "fire"
    /\ fire' = TRUE
    /\ fwd' = [fwd EXCEPT ![i].pc = "select",
                           ![i].rs = ~fwd[i].done,
                           ![i].val = IF fwd[i].done THEN 0 ELSE remote]
    /\ UNCHANGED << pc, retErr, abort, guard, guardCall, onIdleCfg, glueVars, remote,
                    changed, notifyMark, consumed >>
    /\ UNCHANGED << loopVars, execVars >>

\* Lines 187-188: the running Operation receives the pending snapshot from
\* its forwarder, which sets rs = nil.
FwdSend(i) ==
    /\ fwd[i].pc = "select"
    /\ fwd[i].rs
    /\ i = Len(fwd)
    /\ inflight > 0
    /\ fwd' = [fwd EXCEPT ![i].rs = FALSE, ![i].val = 0]
    /\ UNCHANGED << pc, retErr, abort, guard, guardCall, onIdleCfg, glueVars >>
    /\ UNCHANGED << loopVars, chanVars, execVars >>

\* Lines 189-190: forwarder i finds done closed and returns.
FwdDone(i) ==
    /\ fwd[i].pc = "select"
    /\ fwd[i].done
    /\ fwd' = [fwd EXCEPT ![i] =
                 [pc |-> "exited", rs |-> FALSE, val |-> 0, done |-> TRUE]]
    /\ UNCHANGED << pc, retErr, abort, guard, guardCall, onIdleCfg, glueVars >>
    /\ UNCHANGED << loopVars, chanVars, execVars >>

(* -------------------------- the environment --------------------------- *)

\* The running Operation persists its Local State effect (spec 4.2).
ExecPrepare ==
    /\ inflight > 0
    /\ ~prepared
    /\ prepared' = TRUE
    /\ opState' = [opState EXCEPT !.Kind = op.kind, !.Hook = op.hook]
    /\ UNCHANGED << pc, retErr, abort, guard, guardCall, fwd, onIdleCfg, glueVars,
                    inflight >>
    /\ UNCHANGED << loopVars, chanVars >>

\* The Watcher publishes a new snapshot and signals the change; signals
\* that are not yet consumed coalesce (spec section 6).
RemoteChange ==
    /\ pc # "done"
    /\ remote < MaxRemote
    /\ remote' = remote + 1
    /\ changed' = TRUE
    /\ notifyMark' = IF inflight > 0 THEN remote + 1 ELSE notifyMark
    /\ UNCHANGED << pc, retErr, abort, guard, guardCall, fwd, onIdleCfg, glueVars, fire,
                    consumed >>
    /\ UNCHANGED << loopVars, execVars >>

\* The abort channel is signalled (closed) while the Loop runs.
Abort ==
    /\ pc # "done"
    /\ ~abort
    /\ abort' = TRUE
    /\ UNCHANGED << pc, retErr, guard, guardCall, fwd, onIdleCfg, glueVars >>
    /\ UNCHANGED << loopVars, chanVars, execVars >>

(* --------------------------- specification ---------------------------- *)

\* C16 mutant: the Loop starts at its first snapshot.
LoopEntrySkipsSync == "snapshot"

\* Line 159: the first thing the Loop does is updateCharmDir on
\* Executor.State().
LoopEntry == "init"

Init ==
    /\ pc = LoopEntry
    /\ retErr = "none"
    /\ opState \in StartupStates
    /\ rfLocal = opState
    /\ rfRemote = 0
    /\ op = NoOperation
    /\ err = "nil"
    /\ remote = 0
    /\ changed = FALSE
    /\ fire = FALSE
    /\ abort = FALSE
    /\ guard \in {"locked", "unlocked"}
    /\ guardCall = "none"
    /\ inflight = 0
    /\ prepared = FALSE
    /\ fwd = << >>
    /\ onIdleCfg \in BOOLEAN
    /\ idleIter = 0
    /\ idleStreak = 0
    /\ notifyMark = 0
    /\ consumed = FALSE
    /\ manifold = NoCall
    /\ brokerOpen = NoCall

Next ==
    \/ UpdateCharmDirCall
    \/ GuardUnlockOk
    \/ GuardLockdownOk
    \/ GuardFail
    \/ LoopSnapshot
    \/ LoopNextOp
    \/ LoopRun
    \/ LoopRunReturnsOk
    \/ LoopRunReturnsErr
    \/ LoopRefresh
    \/ LoopSwitch
    \/ OnIdleOk
    \/ OnIdleFail
    \/ LoopWaitAbort
    \/ LoopWaitChanged
    \/ LoopWaitFire
    \/ \E i \in 1..Len(fwd) : FwdRecvChanged(i)
    \/ \E i \in 1..Len(fwd) : FwdFire(i)
    \/ \E i \in 1..Len(fwd) : FwdSend(i)
    \/ \E i \in 1..Len(fwd) : FwdDone(i)
    \/ ExecPrepare
    \/ RemoteChange
    \/ Abort

Spec == Init /\ [][Next]_vars


\* Fair scheduling of the goroutines and of the calls the Loop waits for:
\* every call returns, the Go scheduler runs every goroutine that can run,
\* and the select at line 230, which picks at random among its ready cases,
\* does not avoid the abort case for ever.
Fairness ==
    /\ WF_vars(UpdateCharmDirCall)
    /\ WF_vars(GuardUnlockOk \/ GuardLockdownOk \/ GuardFail)
    /\ WF_vars(LoopSnapshot)
    /\ WF_vars(LoopNextOp)
    /\ WF_vars(LoopRun)
    /\ WF_vars(ExecPrepare)
    /\ WF_vars(LoopRunReturnsOk \/ LoopRunReturnsErr)
    /\ WF_vars(LoopRefresh)
    /\ WF_vars(LoopSwitch)
    /\ WF_vars(OnIdleOk \/ OnIdleFail)
    /\ WF_vars(LoopWaitChanged)
    /\ WF_vars(LoopWaitFire)
    /\ SF_vars(LoopWaitAbort)
    /\ WF_vars(\E i \in 1..Len(fwd) : FwdFire(i))
    /\ WF_vars(\E i \in 1..Len(fwd) : FwdDone(i))

\* The Loop started for a running unit at rest, with a freshly constructed
\* guard (locked) and an OnIdle callback: the start-up state of the
\* behaviours checked under fairness.
FairInit ==
    /\ Init
    /\ opState.Kind = "Continue"
    /\ opState.Started
    /\ ~opState.Stopped
    /\ guard = "locked"
    /\ onIdleCfg

FairSpec == FairInit /\ [][Next]_vars /\ Fairness

(* ------------- updateCharmDir over every Local State value ------------- *)

\* updateCharmDir at either of its call sites, for any operation state.
CharmDirInit ==
    /\ pc \in {"init", "guard"}
    /\ retErr = "none"
    /\ opState \in LocalStates
    /\ rfLocal = opState
    /\ rfRemote = 0
    /\ op = NoOperation
    /\ err = "nil"
    /\ remote = 0
    /\ changed = FALSE
    /\ fire = FALSE
    /\ abort \in BOOLEAN
    /\ guard \in {"locked", "unlocked"}
    /\ guardCall = "none"
    /\ inflight = 0
    /\ prepared = FALSE
    /\ fwd = << >>
    /\ onIdleCfg = FALSE
    /\ idleIter = 0
    /\ idleStreak = 0
    /\ notifyMark = 0
    /\ consumed = FALSE
    /\ manifold = NoCall
    /\ brokerOpen = NoCall

CharmDirNext ==
    \/ UpdateCharmDirCall
    \/ GuardUnlockOk
    \/ GuardLockdownOk
    \/ GuardFail

CharmDirSpec == CharmDirInit /\ [][CharmDirNext]_vars

(* ------------------- ManifoldConfig.Validate and start ------------------ *)

\* The error values of start: nil, Validate's not-valid errors, the error
\* of a dependency lookup and the error of NewWorker.
NoError == [kind |-> "nil", msg |-> ""]
NotValid(msg) == [kind |-> "NotValid", msg |-> msg]
GetError(name) == [kind |-> "Get", msg |-> name]
NewWorkerError == [kind |-> "NewWorker", msg |-> "new worker"]

\* The values of a ManifoldConfig: each name empty or set, each function
\* nil or set.
ManifoldConfigs ==
    [ APICallerName : {"", "api-caller"},
      BrokerName    : {"", "broker"},
      NewClient     : {"nil", "func"},
      NewWorker     : {"nil", "func"} ]

\* The dependency.Context start is given: whether it can supply the
\* resource of each name.
Contexts == [ {"api-caller", "broker"} -> BOOLEAN ]

\* Validate checking NewWorker before NewClient.
ValidateNewWorkerBeforeNewClient(config) ==
    IF config.APICallerName = "" THEN NotValid("empty APICallerName")
    ELSE IF config.BrokerName = "" THEN NotValid("empty BrokerName")
    ELSE IF config.NewWorker = "nil" THEN NotValid("nil NewWorker")
    ELSE IF config.NewClient = "nil" THEN NotValid("nil NewClient")
    ELSE NoError

\* ManifoldConfig.Validate: the first failing check decides the error.
Validate(config) ==
    IF config.APICallerName = "" THEN NotValid("empty APICallerName")
    ELSE IF config.BrokerName = "" THEN NotValid("empty BrokerName")
    ELSE IF config.NewClient = "nil" THEN NotValid("nil NewClient")
    ELSE IF config.NewWorker = "nil" THEN NotValid("nil NewWorker")
    ELSE NoError

\* if err := config.Validate(); err != nil { return nil, errors.Trace(err) }
StartValidate ==
    /\ manifold.pc = "validate"
    /\ LET e == Validate(manifold.config)
       IN  IF e # NoError
           THEN manifold' = [manifold EXCEPT !.pc = "returned", !.verr = e,
                                             !.w = "nil", !.err = e]
           ELSE manifold' = [manifold EXCEPT !.pc = "getAPICaller",
                                             !.verr = e]
    /\ UNCHANGED << resolverVars, brokerOpen >>

\* context.Get for one of the two dependencies: a failed lookup returns,
\* a successful one goes on to the step next.
StartGet(at, name, next) ==
    /\ manifold.pc = at
    /\ LET called == [manifold EXCEPT !.calls = Append(@, "Get " \o name)]
       IN  IF manifold.context[name]
           THEN manifold' = [called EXCEPT !.pc = next]
           ELSE manifold' = [called EXCEPT !.pc = "returned", !.w = "nil",
                                           !.err = GetError(name)]
    /\ UNCHANGED << resolverVars, brokerOpen >>

\* start going on after a failed lookup of the API caller.
StartGetAPICallerContinues ==
    /\ manifold.pc = "getAPICaller"
    /\ manifold' = [manifold EXCEPT
                        !.pc = "getBroker",
                        !.calls = Append(@, "Get " \o manifold.config.APICallerName)]
    /\ UNCHANGED << resolverVars, brokerOpen >>

\* context.Get(config.APICallerName, &apiCaller)
StartGetAPICaller ==
    StartGet("getAPICaller", manifold.config.APICallerName, "getBroker")

\* context.Get(config.BrokerName, &broker)
StartGetBroker ==
    StartGet("getBroker", manifold.config.BrokerName, "newClient")

\* client := config.NewClient(apiCaller)
StartNewClient ==
    /\ manifold.pc = "newClient"
    /\ manifold' = [manifold EXCEPT !.pc = "newWorker",
                                    !.calls = Append(@, "NewClient")]
    /\ UNCHANGED << resolverVars, brokerOpen >>

\* w, err := config.NewWorker(Config{...}); a failure returns nil with the
\* error, a success returns the worker.
StartNewWorker ==
    /\ manifold.pc = "newWorker"
    /\ manifold' = [manifold EXCEPT
                        !.pc = "returned",
                        !.calls = Append(@, "NewWorker"),
                        !.w = IF manifold.newWorkerFails
                              THEN "nil" ELSE "worker",
                        !.err = IF manifold.newWorkerFails
                                THEN NewWorkerError ELSE NoError]
    /\ UNCHANGED << resolverVars, brokerOpen >>

\* The variables of the Loop while no Loop runs.
ResolverAtRest ==
    /\ pc = LoopEntry
    /\ retErr = "none"
    /\ opState = [Kind |-> "Continue", Hook |-> "nil", Started |-> TRUE,
                  Stopped |-> FALSE]
    /\ rfLocal = opState
    /\ rfRemote = 0
    /\ op = NoOperation
    /\ err = "nil"
    /\ remote = 0
    /\ changed = FALSE
    /\ fire = FALSE
    /\ abort = FALSE
    /\ guard = "locked"
    /\ guardCall = "none"
    /\ inflight = 0
    /\ prepared = FALSE
    /\ fwd = << >>
    /\ onIdleCfg = FALSE
    /\ idleIter = 0
    /\ idleStreak = 0
    /\ notifyMark = 0
    /\ consumed = FALSE

\* start is called with any config, any context and either outcome of
\* NewWorker.
ManifoldInit ==
    /\ ResolverAtRest
    /\ brokerOpen = NoCall
    /\ \E config \in ManifoldConfigs, context \in Contexts,
          fails \in BOOLEAN :
          manifold = [ pc |-> "validate", config |-> config,
                       context |-> context, newWorkerFails |-> fails,
                       verr |-> NoError, calls |-> << >>,
                       w |-> "nil", err |-> NoError ]

ManifoldNext ==
    \/ StartValidate
    \/ StartGetAPICaller
    \/ StartGetBroker
    \/ StartNewClient
    \/ StartNewWorker

ManifoldSpec == ManifoldInit /\ [][ManifoldNext]_vars

(* ------------------------------ caas.Open ------------------------------- *)

\* The values of environs.OpenParams.
OpenParams == {"params-a", "params-b"}

\* What a provider's Open can return: a Broker or nil, an error or nil.
OpenResults == [ broker : {"nil", "broker"}, err : {"nil", "ErrOpen"} ]

\* The providers: whether the value implements ContainerEnvironProvider,
\* and what its Open returns for each argument.
Providers == [ container : BOOLEAN, Open : [OpenParams -> OpenResults] ]

\* The result of Open for a provider that is not a
\* ContainerEnvironProvider.
NotContainerProvider == [ broker |-> "nil", err |-> "NotValid" ]

\* Open calling Open of any provider, container or not.
OpenAssertAcceptsAny ==
    /\ brokerOpen.pc = "assert"
    /\ brokerOpen' = [brokerOpen EXCEPT !.pc = "open"]
    /\ UNCHANGED << resolverVars, manifold >>

\* envProvider, ok := p.(ContainerEnvironProvider); a failed assertion
\* returns nil and a not-valid error.
OpenAssert ==
    /\ brokerOpen.pc = "assert"
    /\ IF brokerOpen.p.container
       THEN brokerOpen' = [brokerOpen EXCEPT !.pc = "open"]
       ELSE brokerOpen' = [brokerOpen EXCEPT !.pc = "returned",
                                             !.ret = NotContainerProvider]
    /\ UNCHANGED << resolverVars, manifold >>

\* return envProvider.Open(args)
OpenProviderOpen ==
    /\ brokerOpen.pc = "open"
    /\ brokerOpen' = [brokerOpen EXCEPT
                          !.pc = "returned",
                          !.opened = Append(@, brokerOpen.args),
                          !.ret = brokerOpen.p.Open[brokerOpen.args]]
    /\ UNCHANGED << resolverVars, manifold >>

\* Open is called with any provider and any arguments.
OpenInit ==
    /\ ResolverAtRest
    /\ manifold = NoCall
    /\ \E p \in Providers, args \in OpenParams :
          brokerOpen = [ pc |-> "assert", p |-> p, args |-> args,
                         opened |-> << >>,
                         ret |-> [broker |-> "nil", err |-> "nil"] ]

OpenNext ==
    \/ OpenAssert
    \/ OpenProviderOpen

OpenSpec == OpenInit /\ [][OpenNext]_vars

(* ------------------------------- claims ------------------------------- *)

\* Charm content is changing, in the words of spec section 3.
ContentChanging(s) ==
    \/ s.Kind \in {"Install", "Upgrade"}
    \/ s.Kind = "RunHook" /\ s.Hook = "upgrade-charm"

\* C1: for every Local State value updateCharmDir makes one guard call,
\* Unlock iff Started && !Stopped && !changing and Lockdown otherwise; once
\* the call has returned nil no call is in progress and the guard is
\* unlocked iff the state was available. Install and Upgrade give Lockdown
\* whatever Started and Stopped are; RunHook of a hook other than
\* upgrade-charm with Started and not Stopped gives Unlock.
C1_GuardDerivation ==
    LET avail == opState.Started /\ ~opState.Stopped /\ ~ContentChanging(opState)
    IN  /\ guardCall # "none" =>
              /\ guardCall = "Unlock" <=> avail
              /\ guardCall = "Lockdown" <=> ~avail
        /\ pc \in {"snapshot", "decide"} =>
              /\ guardCall = "none"
              /\ guard = "unlocked" <=> avail
        /\ (guardCall # "none" /\ opState.Kind \in {"Install", "Upgrade"})
              => guardCall = "Lockdown"
        /\ ( /\ guardCall # "none"
             /\ opState.Kind = "RunHook"
             /\ opState.Hook \notin {"nil", "upgrade-charm"}
             /\ opState.Started
             /\ ~opState.Stopped ) => guardCall = "Unlock"

\* C1 witness: the upgrade-charm hook of a started, running unit has made
\* updateCharmDir call Lockdown.
C1_Witness ==
    /\ guardCall = "Lockdown"
    /\ opState.Kind = "RunHook"
    /\ opState.Hook = "upgrade-charm"
    /\ opState.Started
    /\ ~opState.Stopped

\* C2: in every state of the running Loop after its initial guard
\* synchronisation, the guard is locked whenever the Executor's Local State
\* says that charm content is being installed or upgraded.
C2_LockedWhileChanging ==
    (pc \notin {"init", "done"} /\ ContentChanging(opState)) => guard = "locked"

\* C3: at most one Executor.Run is in progress, and none is in progress
\* when the Loop calls NextOp or is about to start an Operation.
C3_SingleFlight ==
    /\ inflight <= 1
    /\ pc \in {"decide", "spawn", "refresh", "guard", "switch", "wait"}
          => inflight = 0
    /\ inflight = 1 => pc = "run"

\* C3 witness: the second Operation of the Loop is running.
C3_Witness == pc = "run" /\ inflight = 1 /\ Len(fwd) = 2 /\ prepared

\* C4: with the abort signal set, the blocking wait is left only by
\* returning ErrLoopAborted, so no further Operation is started, also when
\* a change notification or a wakeup is pending at the same time.
C4_AbortPriority ==
    [][(pc = "wait" /\ abort) =>
          \/ pc' = "wait"
          \/ pc' = "done" /\ retErr' = "ErrLoopAborted"]_vars

C6_IdleOncePerStreak == idleStreak <= 1

\* C6 (amended): OnIdle, when configured, is invoked exactly once in every
\* outer iteration whose inner loop ended with ErrNoOperation, consecutive
\* idle iterations included, and in no other iteration.
C6_IdleOncePerIdleIteration ==
    /\ idleIter <= 1
    /\ pc \in {"onidle", "wait"} =>
          (idleIter = 1 <=> (onIdleCfg /\ err = "ErrNoOperation"))
    /\ idleStreak >= idleIter

\* C6 witness: the Loop waits after its second consecutive idle iteration,
\* each of which invoked OnIdle.
C6_Witness ==
    pc = "wait" /\ err = "ErrNoOperation" /\ idleIter = 1 /\ idleStreak = 2

\* C7: every NextOp call is made with a snapshot at least as recent as the
\* one in effect at the last change notification raised while an Operation
\* was running.
C7_NoMissedChange == pc = "decide" => rfRemote >= notifyMark

\* C7 witness: a change was raised during the Run of an Operation and the
\* Loop is about to call NextOp after that Run.
C7_Witness ==
    /\ pc = "decide"
    /\ Len(fwd) >= 1
    /\ notifyMark >= 1
    /\ rfRemote = notifyMark

\* The Loop is blocked in the select at line 230 with no change signal
\* pending for it, none held by a forwarder about to send on fire, and no
\* wakeup in fire.
Blocked ==
    /\ pc = "wait"
    /\ ~changed
    /\ ~fire
    /\ \A i \in 1..Len(fwd) : fwd[i].pc # "fire"

\* NextOp has just been called, on the snapshot rfRemote.
JustDecided == pc \in {"spawn", "switch"}

\* C8: whenever the Loop is blocked in its wait it has taken a snapshot
\* after every change raised so far, and every raised change (the Watcher
\* is at version n or later while the Loop's snapshot is older) is
\* eventually followed by a NextOp call on a snapshot taken after it,
\* unless the Loop terminates.
C8_NoSkippedChange ==
    /\ [](Blocked => rfRemote = remote)
    /\ \A n \in 1..MaxRemote :
          (remote >= n /\ rfRemote < n)
              ~> (pc = "done" \/ (JustDecided /\ rfRemote >= n))

\* C8 witness: a forwarder consumed a change and filled fire, and the woken
\* Loop has decided on a snapshot that contains the change.
C8_Witness ==
    /\ pc = "switch"
    /\ remote >= 1
    /\ rfRemote = remote
    /\ Len(fwd) >= 1
    /\ ~changed

\* C9: OnIdle is invoked only from the switch and only for ErrNoOperation;
\* for ErrWaiting the Loop goes from the switch straight to the blocking
\* wait without invoking it.
C9_NoIdleOnWaiting ==
    [][ /\ (pc' = "onidle" /\ pc # "onidle")
            => (pc = "switch" /\ err = "ErrNoOperation")
        /\ (pc = "switch" /\ err = "ErrWaiting" /\ pc' # pc)
            => (pc' = "wait" /\ idleIter' = idleIter /\ retErr' = "none")
        /\ idleIter' > idleIter => err = "ErrNoOperation" ]_vars

\* C9 witness: the Loop waits after ErrWaiting, with OnIdle configured and
\* not invoked in this iteration.
C9_Witness ==
    pc = "wait" /\ err = "ErrWaiting" /\ onIdleCfg /\ idleIter = 0

\* C10: on ErrNoOperation the Loop invokes OnIdle if it is configured and
\* goes to the blocking wait otherwise; after OnIdle returns nil it is at
\* the same wait with no error; it leaves the wait only by consuming a
\* change signal or a wakeup, or by returning on abort.
C10_IdleThenWait ==
    [][ /\ (pc = "switch" /\ err = "ErrNoOperation" /\ pc' # pc)
            => /\ pc' = IF onIdleCfg THEN "onidle" ELSE "wait"
               /\ retErr' = "none"
        /\ (pc = "onidle" /\ pc' # pc)
            => \/ pc' = "wait" /\ retErr' = "none"
               \/ pc' = "done" /\ retErr' = "ErrIdle"
        /\ (pc = "wait" /\ pc' # pc)
            => \/ changed /\ ~changed' /\ pc' = "snapshot"
               \/ fire /\ ~fire' /\ pc' = "snapshot"
               \/ abort /\ pc' = "done" ]_vars

\* C10 witness: the Loop blocks after ErrNoOperation without an OnIdle
\* callback, no error returned.
C10_Witness ==
    /\ pc = "wait"
    /\ err = "ErrNoOperation"
    /\ ~onIdleCfg
    /\ retErr = "none"
    /\ ~changed /\ ~fire /\ ~abort

\* What the Loop itself reads and writes: its position, its result, its
\* copies of the states, its decision, the guard and the Executor's run.
loopFrame ==
    << pc, retErr, rfLocal, rfRemote, op, err, guard, guardCall, inflight,
       opState, idleIter, idleStreak >>

\* C11: when Executor.Run returns an error the Loop returns it in that very
\* step, leaving its snapshot, its local state copy, the guard, the
\* decision and the idle count as they were; a Run that has not written its
\* effect can only have failed; after the return nothing of the Loop moves
\* any more (no re-snapshot, guard call, NextOp, OnIdle or second Run).
C11_RunErrorIsFatal ==
    [][ /\ (pc = "run" /\ pc' # pc) =>
              \/ /\ prepared
                 /\ pc' = "refresh"
                 /\ retErr' = "none"
              \/ /\ pc' = "done"
                 /\ retErr' = "ErrExecutor"
                 /\ UNCHANGED << rfLocal, rfRemote, op, err, guard, guardCall,
                                 opState, idleIter, idleStreak >>
        /\ retErr' = "ErrExecutor" => pc' = "done"
        /\ retErr = "ErrExecutor" => UNCHANGED loopFrame ]_vars

\* C11 witness: the second Operation failed after it had written its
\* effect, and the Loop has returned the error.
C11_Witness ==
    /\ pc = "done"
    /\ retErr = "ErrExecutor"
    /\ Len(fwd) = 2
    /\ prepared
    /\ rfLocal # opState

\* C12: the switch returns every error other than ErrNoOperation and
\* ErrWaiting at once, as the Loop's result, without invoking OnIdle and
\* without reaching the wait or NextOp again; ErrNoOperation and ErrWaiting
\* never end the Loop.
C12_OnlyIdleAndWaitingRecovered ==
    [][ /\ (pc = "switch" /\ pc' # pc /\ err \notin {"ErrNoOperation", "ErrWaiting"})
              => /\ pc' = "done"
                 /\ retErr' = err
                 /\ UNCHANGED << rfLocal, rfRemote, op, err, guard, guardCall,
                                 idleIter, idleStreak >>
        /\ (pc = "switch" /\ pc' # pc /\ err \in {"ErrNoOperation", "ErrWaiting"})
              => /\ pc' \in {"onidle", "wait"}
                 /\ retErr' = "none"
        /\ retErr \in ResolverErrors
              => /\ retErr \notin {"ErrNoOperation", "ErrWaiting"}
                 /\ UNCHANGED loopFrame ]_vars

\* C12 witness: after an Operation was run NextOp returned an unrecognised
\* error, which the Loop has returned.
C12_Witness ==
    /\ pc = "done"
    /\ retErr = "ErrOther"
    /\ Len(fwd) >= 1
    /\ onIdleCfg
    /\ idleIter = 0

\* C13: while the last decision is ErrDoNotProceed the Loop is at the switch
\* or has returned, OnIdle was not invoked in that iteration, and a Loop
\* that has returned after that decision has returned ErrDoNotProceed.
C13_DoNotProceedIsNotIdle ==
    /\ err = "ErrDoNotProceed" =>
          /\ pc \in {"switch", "done"}
          /\ idleIter = 0
          /\ pc = "done" => retErr = "ErrDoNotProceed"
    /\ retErr = "ErrDoNotProceed" => (pc = "done" /\ err = "ErrDoNotProceed")

\* C13 witness: with OnIdle configured the Loop has returned ErrDoNotProceed.
C13_Witness ==
    pc = "done" /\ retErr = "ErrDoNotProceed" /\ onIdleCfg /\ idleIter = 0

\* C14: when OnIdle returns an error the Loop returns it in that very step
\* instead of reaching the wait, and after the return nothing of the Loop
\* moves any more (no NextOp, Run or guard call).
C14_IdleErrorIsFatal ==
    [][ /\ (pc = "onidle" /\ pc' # pc) =>
              \/ /\ pc' = "wait"
                 /\ retErr' = "none"
              \/ /\ pc' = "done"
                 /\ retErr' = "ErrIdle"
                 /\ UNCHANGED << rfLocal, rfRemote, op, err, guard, guardCall,
                                 inflight, opState, idleIter, idleStreak >>
        /\ retErr' = "ErrIdle" => pc' = "done"
        /\ retErr = "ErrIdle" => UNCHANGED loopFrame ]_vars

\* C14 witness: OnIdle failed after an Operation had been run, and the Loop
\* has returned its error.
C14_Witness ==
    /\ pc = "done"
    /\ retErr = "ErrIdle"
    /\ err = "ErrNoOperation"
    /\ idleIter = 1
    /\ Len(fwd) >= 1

\* The errors a guard call returns.
GuardErrors == {"ErrShutdown", "ErrAborted"}

\* C15: a guard call that returns either succeeds or makes the Loop return
\* its error in that very step, after which nothing of the Loop moves; a
\* Loop whose initial guard call failed has taken no snapshot, has no
\* decision and has run nothing; a Loop whose guard call after a Run failed
\* still holds the decision that produced that Run.
C15_GuardErrorIsFatal ==
    [][ /\ (pc \in {"init", "guard"} /\ guardCall # "none" /\ guardCall' = "none") =>
              \/ /\ retErr' = "none"
                 /\ pc' = (IF pc = "init" THEN "snapshot" ELSE "decide")
                 /\ guard' = (IF guardCall = "Unlock" THEN "unlocked" ELSE "locked")
              \/ /\ retErr' \in GuardErrors
                 /\ pc' = "done"
                 /\ UNCHANGED << rfLocal, rfRemote, op, err, guard, inflight,
                                 fwd, opState, idleIter, idleStreak >>
        /\ retErr' \in GuardErrors => pc' = "done"
        /\ retErr \in GuardErrors =>
              /\ UNCHANGED loopFrame
              /\ err = "nil"
              /\ Len(fwd) = 0 => (rfRemote = 0 /\ op = NoOperation)
              /\ Len(fwd) > 0 => (op \in Operations /\ inflight = 0) ]_vars

\* C15 witness: the guard call after the first Run was cancelled by the
\* abort signal while the watcher had a change the Loop never decided on.
C15_Witness ==
    /\ pc = "done"
    /\ retErr = "ErrAborted"
    /\ Len(fwd) = 1
    /\ op \in Operations
    /\ changed

\* The guard state that the start-up Local State calls for, in the words of
\* spec section 4.4.
StartupGuard ==
    IF opState.Started /\ ~opState.Stopped /\ ~ContentChanging(opState)
    THEN "unlocked"
    ELSE "locked"

\* C16: until the initial guard synchronisation has returned the Loop has
\* taken no snapshot and has no decision; from then until the first Run
\* (the Executor's Local State being the start-up one all that time) no
\* further guard call is made and the guard is locked unless the start-up
\* Local State is started, not stopped and not changing charm content.
C16_InitialGuardSync ==
    /\ pc = "init" =>
          /\ rfRemote = 0
          /\ op = NoOperation
          /\ err = "nil"
          /\ Len(fwd) = 0
    /\ (Len(fwd) = 0 /\ pc # "init" /\ retErr \notin GuardErrors) =>
          /\ guardCall = "none"
          /\ guard = StartupGuard

\* C16 witness: the start-up Local State is an upgrade in progress of a
\* started unit, the guard is locked and NextOp has made its first decision.
C16_Witness ==
    /\ pc = "spawn"
    /\ Len(fwd) = 0
    /\ opState.Kind = "Upgrade"
    /\ opState.Started
    /\ ~opState.Stopped
    /\ guard = "locked"

\* The guard call that a Local State calls for, in the words of spec
\* section 4.4.
CallFor(s) ==
    IF s.Started /\ ~s.Stopped /\ ~ContentChanging(s) THEN "Unlock" ELSE "Lockdown"

\* C17: only a Run that has written its effect returns successfully; the
\* step after it re-reads the snapshot and the Local State and nothing
\* else; the guard call that follows is the one the refreshed Local State
\* calls for; NextOp comes only after that call returned nil, with the
\* states of the refresh and with the guard as that Local State calls for.
C17_RefreshGuardThenDecide ==
    [][ /\ (pc = "run" /\ pc' = "refresh") => prepared
        /\ (pc = "refresh" /\ pc' # pc) =>
              /\ pc' = "guard"
              /\ rfRemote' = remote
              /\ rfLocal' = opState
              /\ guardCall' = "none"
              /\ UNCHANGED << guard, op, err, retErr >>
        /\ (pc = "guard" /\ guardCall' # guardCall /\ guardCall = "none") =>
              guardCall' = CallFor(rfLocal)
        /\ pc = "guard" =>
              /\ pc' \in {"guard", "decide", "done"}
              /\ UNCHANGED << rfLocal, rfRemote, opState, op, err >>
              /\ rfLocal = opState
        /\ (pc = "guard" /\ pc' = "decide") =>
              /\ guardCall = CallFor(rfLocal)
              /\ guard' = (IF CallFor(rfLocal) = "Unlock" THEN "unlocked" ELSE "locked")
        /\ (pc = "decide" /\ Len(fwd) > 0) =>
              /\ rfLocal = opState
              /\ guardCall = "none"
              /\ guard = (IF CallFor(rfLocal) = "Unlock" THEN "unlocked" ELSE "locked")
              /\ UNCHANGED << rfLocal, rfRemote, guard, opState >> ]_vars

\* C17 witness: an Upgrade was run from an unlocked guard; the refresh has
\* read its effect and a later remote change, the guard was locked from it
\* and NextOp is about to be called.
C17_Witness ==
    /\ pc = "decide"
    /\ Len(fwd) = 1
    /\ rfLocal.Kind = "Upgrade"
    /\ rfLocal.Started
    /\ ~rfLocal.Stopped
    /\ guard = "locked"
    /\ rfRemote = 1

\* The forwarding goroutines that have not returned.
Alive == { i \in 1..Len(fwd) : fwd[i].pc # "exited" }

\* C18: every forwarding goroutine has returned when the Loop is about to
\* call NextOp, and at most one forwarding goroutine is alive at any time.
C18_ForwarderBoundedByRun ==
    /\ pc = "decide" => Alive = {}
    /\ Cardinality(Alive) <= 1

\* C19: a forwarder at its select, with or without a snapshot pending, can
\* take a change notification whenever one is there and can return whenever
\* its done marker is closed; a forwarder that has taken a notification can
\* always complete its send on fire; and the return of Executor.Run, with
\* its close(done), waits for no forwarder.
C19_ForwarderNeverStalls ==
    /\ \A i \in 1..Len(fwd) :
          /\ (fwd[i].pc = "select" /\ changed) => ENABLED FwdRecvChanged(i)
          /\ (fwd[i].pc = "select" /\ fwd[i].done) => ENABLED FwdDone(i)
          /\ fwd[i].pc = "fire" => ENABLED FwdFire(i)
    /\ pc = "run" => ENABLED LoopRunReturnsErr
    /\ (pc = "run" /\ prepared) => ENABLED LoopRunReturnsOk

\* C19 witness: an Operation runs, its forwarder has a snapshot pending
\* that the Executor has not received, fire is full and the Watcher has
\* raised another change.
C19_Witness ==
    /\ pc = "run"
    /\ fwd[Len(fwd)].pc = "select"
    /\ fwd[Len(fwd)].rs
    /\ fwd[Len(fwd)].val < remote
    /\ changed
    /\ fire

\* C20: a new forwarder offers nothing; an offer appears only when the
\* forwarder completes the handling of a notification it consumed, and it
\* is then the Watcher's snapshot of that moment, whether or not an older
\* one was pending; a pending snapshot does not change otherwise and is
\* withdrawn in one step, by its delivery or by the end of the Run; what is
\* pending is therefore one snapshot, of the running Operation's forwarder,
\* no older than the Watcher's state at the last notification consumed.
C20_LatestWins ==
    [][ /\ remote' >= remote
        /\ \A i \in 1..Len(fwd') :
              IF i > Len(fwd)
              THEN fwd'[i].pc = "select" /\ ~fwd'[i].rs
              ELSE /\ (fwd[i].pc # "fire" /\ fwd'[i].pc = "fire")
                         => (changed /\ ~changed')
                   /\ (~fwd[i].rs /\ fwd'[i].rs) => fwd[i].pc = "fire"
                   /\ (fwd[i].pc = "fire" /\ fwd'[i].pc # "fire" /\ ~fwd[i].done)
                         => (fwd'[i].rs /\ fwd'[i].val = remote)
                   /\ (fwd[i].rs /\ fwd'[i].rs /\ fwd'[i].pc = fwd[i].pc)
                         => fwd'[i].val = fwd[i].val
                   /\ (fwd[i].rs /\ ~fwd'[i].rs)
                         => \/ fwd[i].pc = "select" /\ fwd'[i].pc = "select"
                            \/ ~fwd[i].done /\ fwd'[i].done
                   /\ fwd[i].rs =>
                         /\ fwd[i].val \in 1..remote
                         /\ i = Len(fwd)
                         /\ ~fwd[i].done ]_vars

\* C20 witness: the forwarder of the running Operation holds snapshot 1
\* undelivered and has consumed the notification of snapshot 2.
C20_Witness ==
    /\ pc = "run"
    /\ fwd[Len(fwd)].pc = "fire"
    /\ fwd[Len(fwd)].rs
    /\ fwd[Len(fwd)].val = 1
    /\ remote = 2

\* C21: ErrLoopAborted is returned only by a step of the blocking wait
\* taken with abort signalled, and the guard's cancellation error only by
\* a Lockdown call with abort signalled; with abort signalled a running
\* Operation can still write its effect and return, its Run ends with its
\* own result only, NextOp still yields an Operation or an error to the
\* switch, and a yielded Operation is still run.
C21_AbortOnlyAtWaitAndLockdown ==
    [][ /\ (retErr' = "ErrLoopAborted" /\ retErr # "ErrLoopAborted")
              => (pc = "wait" /\ abort)
        /\ (retErr' = "ErrAborted" /\ retErr # "ErrAborted")
              => (guardCall = "Lockdown" /\ abort)
        /\ (abort /\ pc = "run") =>
              /\ ~prepared => ENABLED ExecPrepare
              /\ prepared => ENABLED LoopRunReturnsOk
              /\ pc' # pc => \/ pc' = "refresh" /\ retErr' = "none"
                             \/ pc' = "done" /\ retErr' = "ErrExecutor"
        /\ (abort /\ pc = "decide" /\ pc' # pc) => pc' \in {"spawn", "switch"}
        /\ (abort /\ pc = "spawn") =>
              /\ ENABLED LoopRun
              /\ pc' # pc => (pc' = "run" /\ inflight' = 1) ]_vars

\* C21 witness: with abort signalled the second Operation of the inner
\* loop is running and has written its effect.
C21_Witness ==
    /\ abort
    /\ pc = "run"
    /\ Len(fwd) = 2
    /\ prepared
    /\ retErr = "none"

\* C22: the step that returns ErrLoopAborted is the abort case of the
\* blocking wait and changes nothing but the Loop's position and result;
\* the abort case returns no other error; from then on Local State, the
\* guard and everything else of the Loop keep their values, with no guard
\* call, Run or OnIdle in progress.
C22_AbortNoFurtherMutation ==
    [][ /\ (retErr' = "ErrLoopAborted" /\ retErr # "ErrLoopAborted") =>
              /\ pc = "wait"
              /\ pc' = "done"
              /\ UNCHANGED << opState, guard, guardCall, rfLocal, rfRemote,
                              op, err, inflight, prepared, fwd, idleIter,
                              idleStreak, remote, changed, fire >>
        /\ (pc = "wait" /\ pc' = "done") => retErr' = "ErrLoopAborted"
        /\ retErr = "ErrLoopAborted" =>
              /\ UNCHANGED loopFrame
              /\ guardCall = "none"
              /\ inflight = 0 ]_vars

\* C22 witness: the Loop was aborted at its wait after an Operation had
\* run, with the guard unlocked and a change notification left unconsumed.
C22_Witness ==
    /\ pc = "done"
    /\ retErr = "ErrLoopAborted"
    /\ guard = "unlocked"
    /\ Len(fwd) >= 1
    /\ changed

C24_GuardUpdatedBeforeWait ==
    [][(pc' = "wait" /\ pc # "wait") => (pc \in {"init", "guard"} /\ guardCall # "none")]_vars

\* C24 (amended): after the Resolver's no-work or must-wait answer the Loop
\* makes no guard call on its way to the wait; the guard was set by the
\* call before that NextOp and at the wait it is as the Executor's Local
\* State calls for; the wait is left only by consuming a change
\* notification or a wakeup, or by returning ErrLoopAborted on abort.
C24_WaitWithGuardInSync ==
    [][ /\ (pc \in {"switch", "onidle"} /\ err \in {"ErrNoOperation", "ErrWaiting"}) =>
              /\ guardCall = "none"
              /\ UNCHANGED << guard, guardCall >>
              /\ pc' \in {"switch", "onidle", "wait", "done"}
              /\ pc' = "done" => (pc = "onidle" /\ retErr' = "ErrIdle")
        /\ pc = "wait" =>
              /\ err \in {"ErrNoOperation", "ErrWaiting"}
              /\ guardCall = "none"
              /\ guard = (IF CallFor(opState) = "Unlock" THEN "unlocked" ELSE "locked")
              /\ inflight = 0
              /\ pc' # pc =>
                    \/ /\ pc' = "snapshot"
                       /\ \/ changed /\ ~changed' /\ fire' = fire
                          \/ fire /\ ~fire' /\ changed' = changed
                    \/ /\ pc' = "done"
                       /\ abort
                       /\ retErr' = "ErrLoopAborted" ]_vars

\* C24 witness: after an Upgrade was run the Resolver answered must-wait
\* and the Loop blocks, the guard locked by the call made before that
\* answer, with nothing to receive.
C24_Witness ==
    /\ pc = "wait"
    /\ err = "ErrWaiting"
    /\ opState.Kind = "Upgrade"
    /\ opState.Started
    /\ ~opState.Stopped
    /\ guard = "locked"
    /\ Len(fwd) >= 1
    /\ ~changed
    /\ ~fire
    /\ ~abort

\* C25: every step that changes the Executor's Local State is taken while
\* an Executor.Run is in progress, is the running Operation writing its own
\* effect, and is no step of the Loop or of a forwarder: the Loop's
\* position, its copies of the states, its decision, the guard and the
\* forwarders are left as they were.
C25_LocalStateOwnedByExecutor ==
    [][opState' # opState =>
          /\ pc = "run"
          /\ inflight = 1
          /\ ~prepared
          /\ prepared'
          /\ opState' = [opState EXCEPT !.Kind = op.kind, !.Hook = op.hook]
          /\ UNCHANGED << pc, retErr, rfLocal, rfRemote, op, err, guard,
                          guardCall, fwd, inflight, idleIter, idleStreak >>]_vars

\* C25 witness: the running Operation has changed Local State, which now
\* differs from the copy the Loop decided on.
C25_Witness ==
    /\ pc = "run"
    /\ prepared
    /\ opState # rfLocal
    /\ opState.Kind = op.kind

\* The Local State the scenario of C26 starts from.
ScenarioStart ==
    [Kind |-> "RunHook", Hook |-> "config-changed", Started |-> TRUE,
     Stopped |-> FALSE]

\* The Operation the Resolver yields in the scenario of C26.
ScenarioOp == [kind |-> "RunHook", hook |-> "relation-changed"]

\* The Loop was started from ScenarioStart and has run nothing yet.
ScenarioBeforeRun ==
    /\ Len(fwd) = 0
    /\ opState = ScenarioStart
    /\ pc # "init"
    /\ retErr \notin GuardErrors

\* The Loop was started from ScenarioStart and its first Operation, the
\* scenario's, is running (the Loop's copy of Local State is still the one
\* it took before the run).
ScenarioRunning ==
    /\ Len(fwd) = 1
    /\ pc = "run"
    /\ rfLocal = ScenarioStart
    /\ op = ScenarioOp

\* C26: started from {RunHook, config-changed, started, not stopped} the
\* guard is unlocked from the initial synchronisation on; when the Resolver
\* first reports no work OnIdle has been invoked once when the Loop is at
\* its wait, where it can take no step while there is no change, wakeup or
\* abort and can wake once a change is signalled; and while the Resolver's
\* RunHook(relation-changed) Operation runs the guard stays unlocked and
\* Local State never indicates a change of charm content.
C26_ScenarioGuardStaysUnlocked ==
    /\ ScenarioBeforeRun =>
          /\ guard = "unlocked"
          /\ (onIdleCfg /\ err = "ErrNoOperation" /\ pc = "wait" /\ idleStreak = 1)
                => idleIter = 1
          /\ (pc = "wait" /\ ~changed /\ ~fire /\ ~abort) =>
                ~ENABLED (LoopWaitAbort \/ LoopWaitChanged \/ LoopWaitFire)
          /\ (pc = "wait" /\ changed) => ENABLED LoopWaitChanged
          /\ pc = "spawn" => ENABLED LoopRun
    /\ ScenarioRunning =>
          /\ guard = "unlocked"
          /\ guardCall = "none"
          /\ ~ContentChanging(opState)
          /\ opState.Started
          /\ ~opState.Stopped
          /\ prepared => (opState.Kind = "RunHook" /\ opState.Hook = "relation-changed")

\* C26 witness: the Loop blocked, took the first remote change at its wait
\* (nothing was forwarded and no wakeup is pending), and the Executor has
\* run the hook of the scenario's Operation with the guard unlocked.
C26_Witness ==
    /\ ScenarioRunning
    /\ onIdleCfg
    /\ prepared
    /\ remote = 1
    /\ rfRemote = 1
    /\ ~changed
    /\ ~fire
    /\ fwd[1] = NewForwarder
    /\ guard = "unlocked"

\* C27: NextOp is reached only from the snapshot step of an outer
\* iteration or from the guard call that follows the refresh after a Run;
\* both read steps take the Watcher's snapshot and the Executor's Local
\* State as they are at that step, and nothing changes the Loop's copies
\* or the Executor's Local State between the read and the call; a wake-up
\* leads to the snapshot step and a returned Run to the refresh; so at the
\* call the Local State argument is the Executor's current one and the
\* snapshot includes every change raised while the last Operation ran.
C27_NextOpInputsFresh ==
    [][ /\ (pc' = "decide" /\ pc # "decide") =>
              \/ pc = "snapshot"
              \/ pc = "guard" /\ guardCall # "none"
        /\ (pc = "snapshot" /\ pc' # pc) =>
              /\ pc' = "decide"
              /\ rfRemote' = remote
              /\ rfLocal' = opState
        /\ (pc = "refresh" /\ pc' # pc) =>
              /\ pc' = "guard"
              /\ rfRemote' = remote
              /\ rfLocal' = opState
        /\ (pc = "wait" /\ pc' # pc) => pc' \in {"snapshot", "done"}
        /\ (pc = "run" /\ pc' # pc) => pc' \in {"refresh", "done"}
        /\ pc \in {"guard", "decide"} =>
              /\ UNCHANGED << rfLocal, rfRemote, opState >>
              /\ rfLocal = opState
              /\ inflight = 0
        /\ pc = "decide" =>
              /\ rfRemote <= remote
              /\ rfRemote >= notifyMark ]_vars

\* C27 witness: after an Upgrade ran and the Loop woke from its wait, NextOp
\* is about to be called with Local State as the Upgrade left it and with
\* the second snapshot.
C27_Witness ==
    /\ pc = "decide"
    /\ Len(fwd) = 1
    /\ op = NoOperation
    /\ rfLocal.Kind = "Upgrade"
    /\ rfLocal = opState
    /\ rfRemote = 2

\* C28: an Operation is held for running only as the result of a NextOp
\* call that returned it with a nil error; the next step of the Loop hands
\* that very Operation to Executor.Run, which starts exactly one Run; a Run
\* is started in no other way; while it runs and until the next NextOp call
\* the Operation is not replaced, and when the Run has returned the Loop
\* goes on to refresh or returns, never back to running it; an outer
\* iteration starts without an Operation.
C28_EachOperationRunOnce ==
    [][ /\ (pc = "decide" /\ pc' # pc) =>
              \/ err' = "nil" /\ op' \in Operations /\ pc' = "spawn"
              \/ err' # "nil" /\ op' = NoOperation /\ pc' = "switch"
        /\ (pc' = "spawn" /\ pc # "spawn") => pc = "decide"
        /\ pc = "spawn" =>
              /\ op \in Operations
              /\ err = "nil"
              /\ inflight = 0
              /\ op' = op
              /\ pc' # pc => /\ pc' = "run"
                             /\ inflight' = 1
                             /\ Len(fwd') = Len(fwd) + 1
        /\ (inflight' > inflight \/ Len(fwd') > Len(fwd)) => pc = "spawn"
        /\ pc \in {"run", "refresh", "guard"} =>
              /\ op \in Operations
              /\ op' = op
              /\ pc' \notin {"spawn", "switch", "wait", "snapshot"}
        /\ (pc = "run" /\ pc' # pc) => inflight' = 0
        /\ pc' = "snapshot" => op' = NoOperation ]_vars

\* C28 witness: the second Operation the Resolver returned, different from
\* the first, is running.
C28_Witness ==
    /\ pc = "run"
    /\ Len(fwd) = 2
    /\ inflight = 1
    /\ opState.Kind = "Upgrade"
    /\ op = [kind |-> "RunHook", hook |-> "relation-changed"]
    /\ ~prepared

\* C29: while the last answer of the Resolver is ErrWaiting the Loop is at
\* the switch, at its wait or has returned, no Run is in progress and none
\* is started; the Loop leaves that answer behind only by leaving the wait
\* on a change notification or a wakeup, for a new outer iteration; and a
\* Run is started only for an Operation that NextOp returned with nil.
C29_NoRunWhileWaiting ==
    [][ /\ err = "ErrWaiting" =>
              /\ pc \in {"switch", "wait", "done"}
              /\ op = NoOperation
              /\ inflight = 0
              /\ inflight' = 0
              /\ Len(fwd') = Len(fwd)
              /\ pc' # pc =>
                    \/ pc = "switch" /\ pc' = "wait" /\ err' = err
                    \/ /\ pc = "wait"
                       /\ pc' = "snapshot"
                       /\ err' = "nil"
                       /\ (changed /\ ~changed') \/ (fire /\ ~fire')
                    \/ pc = "wait" /\ pc' = "done" /\ retErr' = "ErrLoopAborted"
        /\ inflight' > inflight =>
              /\ err = "nil"
              /\ op \in Operations ]_vars

\* C29 witness: after an Operation ran the Resolver answered ErrWaiting and
\* the Loop is at its wait, with a wakeup of that run still pending.
C29_Witness ==
    /\ pc = "wait"
    /\ err = "ErrWaiting"
    /\ Len(fwd) = 1
    /\ fire
    /\ ~changed
    /\ onIdleCfg
    /\ idleIter = 0

\* C30: whenever the Loop is at the switch the error that ended the inner
\* loop is one of the Resolver's errors, not nil, so the nil case is not
\* the one taken; the same error is still held at OnIdle and at the wait.
C30_SwitchErrorNonNil ==
    /\ pc = "switch" =>
          /\ err \in ResolverErrors
          /\ err # "nil"
          /\ SwitchCase(err) # "nil"
    /\ pc \in {"onidle", "wait"} => err \in {"ErrNoOperation", "ErrWaiting"}

\* C30 witness: the inner loop ran two Operations and was ended by
\* ErrNoOperation.
C30_Witness ==
    /\ pc = "switch"
    /\ err = "ErrNoOperation"
    /\ Len(fwd) = 2

\* C31: whenever the Loop is about to call NextOp or is at its blocking
\* wait, no guard call is in progress and the guard is unlocked exactly if
\* the Executor's current Local State is started, not stopped and not
\* changing charm content.
C31_GuardMatchesLocalState ==
    pc \in {"decide", "wait"} =>
        /\ guardCall = "none"
        /\ guard \in {"locked", "unlocked"}
        /\ guard = "unlocked" <=>
              (opState.Started /\ ~opState.Stopped /\ ~ContentChanging(opState))

\* C31 witness: a stopped unit, with nothing changing its charm content,
\* is at the wait after an Operation ran, with the guard locked.
C31_Witness ==
    /\ pc = "wait"
    /\ Len(fwd) >= 1
    /\ opState.Started
    /\ opState.Stopped
    /\ ~ContentChanging(opState)
    /\ guard = "locked"

\* C32: a change notification raised while an Operation runs, when it is
\* consumed by a forwarder during that Run, is consumed by the forwarder
\* started for that Operation, which then offers a snapshot to that Run.
C32_ConsumedByCurrentForwarder ==
    [][\A i \in 1..Len(fwd) :
          ( /\ inflight > 0
            /\ notifyMark > 0
            /\ changed
            /\ fwd[i].pc = "select"
            /\ fwd'[i].pc = "fire" ) => (i = Len(fwd) /\ ~fwd[i].done)]_vars

\* C34: done is closed by the step in which Executor.Run returns, with or
\* without an error, for the forwarder of that Run only, and stays closed;
\* under fair scheduling every forwarder whose done is closed eventually
\* returns, whether or not its snapshot was ever received.
C34_ForwardersTerminate ==
    /\ [][ /\ (pc = "run" /\ pc' # pc) =>
                 /\ pc' \in {"refresh", "done"}
                 /\ ~fwd[Len(fwd)].done
                 /\ fwd'[Len(fwd)].done
           /\ \A i \in 1..Len(fwd) :
                 /\ fwd[i].done => fwd'[i].done
                 /\ (~fwd[i].done /\ fwd'[i].done) =>
                       (i = Len(fwd) /\ pc = "run" /\ pc' # pc)
                 /\ fwd'[i].pc = "exited" => fwd[i].done ]_vars
    /\ \A i \in 1..MaxOps :
          (Len(fwd) >= i /\ fwd[i].done) ~> (Len(fwd) >= i /\ fwd[i].pc = "exited")

\* C34 witness: the Loop has returned the error of its second Run and both
\* forwarders have returned.
C34_Witness ==
    /\ pc = "done"
    /\ retErr = "ErrExecutor"
    /\ Len(fwd) = 2
    /\ fwd[1].pc = "exited"
    /\ fwd[2].pc = "exited"

\* C35: the Loop has returned exactly when it holds an error to return;
\* that error is ErrLoopAborted, taken with abort signalled, or the error
\* of the Resolver's last answer (never ErrNoOperation or ErrWaiting), of
\* an Executor.Run, of a guard call, or of OnIdle invoked on no work.
C35_NeverReturnsNil ==
    /\ pc = "done" <=> retErr # "none"
    /\ pc = "done" =>
          /\ retErr \in {"ErrLoopAborted", "ErrDoNotProceed", "ErrOther",
                         "ErrExecutor", "ErrShutdown", "ErrAborted", "ErrIdle"}
          /\ retErr = "ErrLoopAborted" => abort
          /\ retErr \in {"ErrDoNotProceed", "ErrOther"} => err = retErr
          /\ retErr = "ErrExecutor" => (Len(fwd) >= 1 /\ op \in Operations)
          /\ retErr = "ErrIdle" => (onIdleCfg /\ err = "ErrNoOperation")
          /\ retErr = "ErrAborted" => abort

\* C35 witness: the Loop ran two Operations, idled, and was aborted at its
\* wait.
C35_Witness ==
    /\ pc = "done"
    /\ retErr = "ErrLoopAborted"
    /\ Len(fwd) = 2
    /\ err = "ErrNoOperation"
    /\ idleIter = 1

\* C33 (as claimed): the blocking wait is woken through fire only when a
\* forwarder has consumed a change notification since the Loop's most
\* recent Watcher.Snapshot() call.
C33_FireWakeupOnlyWhenStale ==
    [][(fire /\ ~fire') => consumed]_vars

\* C33 (amended): fire is filled only by the step in which a forwarder
\* completes the handling of a notification it consumed, a step that can
\* always be taken, also with fire full, and that leaves fire full; fire is
\* emptied only by the blocking wait, which it wakes for a new outer
\* iteration, however long ago the wakeup was left there.
C33_FireSlot ==
    [][ /\ \A i \in 1..Len(fwd) :
              /\ (fwd[i].pc # "fire" /\ fwd'[i].pc = "fire")
                    => (fwd[i].pc = "select" /\ changed /\ ~changed')
              /\ fwd[i].pc = "fire" => ENABLED FwdFire(i)
              /\ (fwd[i].pc = "fire" /\ fwd'[i].pc # "fire")
                    => (fire' /\ fwd'[i].pc = "select")
        /\ (~fire /\ fire') =>
              \E i \in 1..Len(fwd) : fwd[i].pc = "fire" /\ fwd'[i].pc = "select"
        /\ (fire /\ ~fire') =>
              /\ pc = "wait"
              /\ pc' = "snapshot"
              /\ changed' = changed
              /\ Len(fwd) >= 1 ]_vars

\* C33 witness: the Loop is at its wait with a wakeup pending although no
\* notification was consumed since its last snapshot, which is the
\* Watcher's current one.
C33_Witness ==
    /\ pc = "wait"
    /\ fire
    /\ ~consumed
    /\ ~changed
    /\ rfRemote = remote
    /\ \A i \in 1..Len(fwd) : fwd[i].pc = "exited"


(* ---------------------------- caas.Open (C36) --------------------------- *)

\* C36: caas.Open returns nil and a not-valid error, without calling any
\* Open, when the provider is not a ContainerEnvironProvider; otherwise it
\* has called that provider's Open once, with its own arguments, and
\* returns exactly the broker and error that call returned.
C36_OpenDelegates ==
    /\ brokerOpen.pc # "returned" => brokerOpen.opened = << >>
    /\ (brokerOpen.pc = "returned" /\ ~brokerOpen.p.container) =>
           /\ brokerOpen.ret.broker = "nil"
           /\ brokerOpen.ret.err = "NotValid"
           /\ brokerOpen.opened = << >>
    /\ (brokerOpen.pc = "returned" /\ brokerOpen.p.container) =>
           /\ brokerOpen.opened = << brokerOpen.args >>
           /\ brokerOpen.ret = brokerOpen.p.Open[brokerOpen.args]

\* Open has returned for a provider that is not a container provider and
\* whose Open, had it been called, would have returned a broker.
C36_Witness ==
    /\ brokerOpen.pc = "returned"
    /\ ~brokerOpen.p.container
    /\ brokerOpen.p.Open[brokerOpen.args] = [broker |-> "broker", err |-> "nil"]

(* --------------------- ManifoldConfig.Validate (C37) -------------------- *)

\* The fields of a ManifoldConfig in the order of their declaration, and
\* whether a field of a config is unset.
ConfigFields == << "APICallerName", "BrokerName", "NewClient", "NewWorker" >>
Unset(config, i) == config[ConfigFields[i]] \in {"", "nil"}

\* C37: Validate returns nil exactly when both names are non-empty and
\* both functions are non-nil; otherwise it returns a not-valid error
\* naming the first unset field in the order APICallerName, BrokerName,
\* NewClient, NewWorker.
C37_ValidateFirstFailingField ==
    manifold.pc # "validate" =>
        LET config == manifold.config
            bad    == { i \in 1..4 : Unset(config, i) }
        IN  /\ manifold.verr = NoError <=> bad = {}
            /\ bad # {} =>
                   LET first == CHOOSE i \in bad : \A j \in bad : i <= j
                   IN  /\ manifold.verr.kind = "NotValid"
                       /\ manifold.verr.msg =
                              (IF first <= 2 THEN "empty " ELSE "nil ")
                                  \o ConfigFields[first]

\* Validate has reported NewClient for a config in which NewWorker is nil
\* as well.
C37_Witness ==
    /\ manifold.pc = "returned"
    /\ manifold.verr = NotValid("nil NewClient")
    /\ manifold.config.NewWorker = "nil"

(* ---------------------- the manifold's start (C38) ---------------------- *)

\* The calls of a start that runs to its end, in order.
StartCalls == << "Get api-caller", "Get broker", "NewClient", "NewWorker" >>

\* C38: start validates before it calls anything, and makes its calls in
\* the order API caller lookup, broker lookup, NewClient, NewWorker,
\* stopping at the first failure: after a failed validation or lookup it
\* has returned a nil worker with that error and called neither NewClient
\* nor NewWorker; after a failed NewWorker it has returned a nil worker
\* with NewWorker's error; otherwise it returns the worker and nil.
C38_StartFailFast ==
    LET valid == \A i \in 1..4 : ~Unset(manifold.config, i)
        calls == manifold.calls
    IN  /\ Len(calls) <= 4
        /\ \A i \in 1..Len(calls) : calls[i] = StartCalls[i]
        /\ calls # << >> => (valid /\ manifold.pc # "validate")
        /\ manifold.pc = "returned" =>
               IF ~valid
               THEN /\ manifold.w = "nil"
                    /\ manifold.err.kind = "NotValid"
                    /\ calls = << >>
               ELSE IF ~manifold.context["api-caller"]
               THEN /\ manifold.w = "nil"
                    /\ manifold.err = GetError("api-caller")
                    /\ calls = SubSeq(StartCalls, 1, 1)
               ELSE IF ~manifold.context["broker"]
               THEN /\ manifold.w = "nil"
                    /\ manifold.err = GetError("broker")
                    /\ calls = SubSeq(StartCalls, 1, 2)
               ELSE IF manifold.newWorkerFails
               THEN /\ manifold.w = "nil"
                    /\ manifold.err = NewWorkerError
                    /\ calls = StartCalls
               ELSE /\ manifold.w = "worker"
                    /\ manifold.err = NoError
                    /\ calls = StartCalls

\* start has returned after the lookup of the API caller failed, for a
\* context that could have supplied the broker.
C38_Witness ==
    /\ manifold.pc = "returned"
    /\ manifold.calls = << "Get api-caller" >>
    /\ manifold.context["broker"]
    /\ manifold.err = GetError("api-caller")
=============================================================================
